---- MODULE Spec2Model ----
(***************************************************************************)
(* Line-consistency core of the skyscraper solver                          *)
(* (src/src/skyscraper/pre_solve_perm.py): the permutation generator, the  *)
(* prefilled resolver, the intersection propagator and the initializer.    *)
(*                                                                         *)
(* Positions, row and column indices are 0-based as in the Python source;  *)
(* a permutation is a TLA+ sequence, so perm[pos] of the source is         *)
(* perm[pos + 1] here.  A prefill constraint (pos, val) is <<pos, val>>.   *)
(***************************************************************************)
EXTENDS Integers, Sequences, FiniteSets, TLC

VARIABLES n, clues, prefill_cells,
          row_permutations, col_permutations, dirty_intersections,
          queue, assigned_rows, assigned_cols,
          pc, i, ret, call, result, memo, shared

vars == <<n, clues, prefill_cells, row_permutations, col_permutations,
          dirty_intersections, queue, assigned_rows, assigned_cols,
          pc, i, ret, call, result, memo, shared>>

game_vars == <<n, clues, prefill_cells, row_permutations, col_permutations,
               dirty_intersections, queue, assigned_rows, assigned_cols,
               i, ret, shared>>

(***************************************************************************)
(* Bounds of the model.                                                    *)
(***************************************************************************)
\* largest line length n for which the generator and resolver are called directly
MaxLineLen == 4
\* largest line length for which the prefill tuple is also passed in every order
\* (longer lines pass it sorted by position, as initialize_permutations builds it)
MaxShuffledLen == 3
\* largest grid size n of a Game handed to initialize_permutations
MaxN == 3
\* largest number of givens (clued edges plus known cells) of a Game
MaxGivens == 2
\* largest number of known cells among the givens
MaxCells == 1
\* the givens lie on the rows and columns 0..MaxGivenLine: a clued edge is an end
\* of such a line, a known cell lies in such a row or such a column
MaxGivenLine == 0

(***************************************************************************)
(* Helpers for Python tuples and sets.                                     *)
(***************************************************************************)
Range(t) == {t[k] : k \in 1..Len(t)}

\* tuple(range(lo, hi))
range(lo, hi) == [k \in 1..(IF hi > lo THEN hi - lo ELSE 0) |-> lo + k - 1]

\* tuple(range(n, 0, -1))
range_down(m) == [k \in 1..m |-> m - k + 1]

\* the orderings of the index set 1..m: m inserted at every position of every
\* ordering of 1..(m - 1)
RECURSIVE PosPerms(_)
PosPerms(m) ==
    IF m <= 0 THEN {<<>>}
    ELSE {[k \in 1..m |-> IF k < at THEN q[k] ELSE IF k = at THEN m ELSE q[k - 1]] :
             q \in PosPerms(m - 1), at \in 1..m}

\* itertools.permutations(t): every ordering of the entries of t, by position
permutations(t) == {[k \in 1..Len(t) |-> t[q[k]]] : q \in PosPerms(Len(t))}

\* g.full_domain and g.cell_range
full_domain(m) == range(1, m + 1)
cell_range(m) == range(1, m)

(***************************************************************************)
(* The visibility scan (grid_manager_perm, not part of src/): a position   *)
(* is visible when its value exceeds every value before it.                *)
(***************************************************************************)
count_visible_start(perm) ==
    Cardinality({k \in 1..Len(perm) : \A m \in 1..(k - 1) : perm[m] < perm[k]})

count_visible_reverse(perm) ==
    Cardinality({k \in 1..Len(perm) : \A m \in (k + 1)..Len(perm) : perm[m] < perm[k]})

(***************************************************************************)
(* resolve_prefilled_permutations                                          *)
(***************************************************************************)
None == 0

\* template after the loop "for pos, val in prefill_constraints: template[pos] = val"
RECURSIVE template_of(_, _)
template_of(m, prefill) ==
    IF Len(prefill) = 0 THEN [p \in 0..(m - 1) |-> None]
    ELSE LET last == prefill[Len(prefill)]
             before == template_of(m, SubSeq(prefill, 1, Len(prefill) - 1))
         IN  [before EXCEPT ![last[1]] = last[2]]

used_values_of(prefill) == {prefill[k][2] : k \in 1..Len(prefill)}

\* the entries of tuple t that lie in S, in the order of t
RECURSIVE filter_tuple(_, _)
filter_tuple(t, S) ==
    IF Len(t) = 0 THEN <<>>
    ELSE LET rest == filter_tuple(Tail(t), S)
         IN  IF Head(t) \in S THEN <<Head(t)>> \o rest ELSE rest

\* one candidate: the template with perm_values written into the free positions
complete_of(m, template, free_positions, perm_values) ==
    [k \in 1..m |->
        IF template[k - 1] # None THEN template[k - 1]
        ELSE perm_values[CHOOSE x \in 1..Len(free_positions) : free_positions[x] = k - 1]]

\* slip: the near clue compared even when it is 0
resolve_clue_ok_near_always(perm_tuple, clue, opp_clue) ==
    /\ count_visible_start(perm_tuple) = clue
    /\ (opp_clue = 0 \/ count_visible_reverse(perm_tuple) = opp_clue)

resolve_clue_ok(perm_tuple, clue, opp_clue) ==
    /\ (clue = 0 \/ count_visible_start(perm_tuple) = clue)
    /\ (opp_clue = 0 \/ count_visible_reverse(perm_tuple) = opp_clue)

\* complete[pos] = perm_values[i] raises IndexError when the free positions
\* outnumber the available values: a position named twice with two values
resolve_raises(m, domain, prefill_constraints) ==
    LET template == template_of(m, prefill_constraints)
        used_values == used_values_of(prefill_constraints)
        free_positions == filter_tuple(range(0, m), {p \in 0..(m - 1) : template[p] = None})
        available_values == filter_tuple(domain, Range(domain) \ used_values)
    IN  Len(free_positions) > Len(available_values)

resolve_prefilled_permutations(m, domain, clue, opp_clue, prefill_constraints) ==
    LET template == template_of(m, prefill_constraints)
        used_values == used_values_of(prefill_constraints)
        free_positions == filter_tuple(range(0, m), {p \in 0..(m - 1) : template[p] = None})
        available_values == filter_tuple(domain, Range(domain) \ used_values)
    IN  {perm_tuple \in {complete_of(m, template, free_positions, perm_values) :
                            perm_values \in permutations(available_values)} :
            resolve_clue_ok(perm_tuple, clue, opp_clue)}

(***************************************************************************)
(* generate_permutations                                                   *)
(***************************************************************************)
\* check_prefill: every prefill constraint is met (vacuous without prefill)
check_prefill(prefill_constraints, perm) ==
    \A k \in 1..Len(prefill_constraints) :
        perm[prefill_constraints[k][1] + 1] = prefill_constraints[k][2]

\* clue == 0 and opp_clue == 0
branch_unconstrained(domain, prefill_constraints) ==
    {perm \in permutations(domain) : check_prefill(prefill_constraints, perm)}

\* slip: the far clue compared even when it is 0
branch_clue_n_far_always(m, opp_clue, prefill_constraints) ==
    LET perm == range(1, m + 1)
    IN  IF /\ count_visible_reverse(perm) = opp_clue
           /\ check_prefill(prefill_constraints, perm)
        THEN {perm} ELSE {}

\* clue == n
branch_clue_n(m, opp_clue, prefill_constraints) ==
    LET perm == range(1, m + 1)
    IN  IF /\ (opp_clue = 0 \/ count_visible_reverse(perm) = opp_clue)
           /\ check_prefill(prefill_constraints, perm)
        THEN {perm} ELSE {}

\* opp_clue == n
branch_opp_clue_n(m, clue, prefill_constraints) ==
    LET perm == range_down(m)
    IN  IF /\ count_visible_start(perm) = clue
           /\ check_prefill(prefill_constraints, perm)
        THEN {perm} ELSE {}

\* clue == 1
branch_clue_1(m, cells, opp_clue, prefill_constraints) ==
    {perm \in {<<m>> \o rest : rest \in permutations(cells)} :
        /\ check_prefill(prefill_constraints, perm)
        /\ count_visible_reverse(perm) = opp_clue}

\* opp_clue == 1
branch_opp_clue_1(m, cells, clue, prefill_constraints) ==
    {perm \in {rest \o <<m>> : rest \in permutations(cells)} :
        /\ check_prefill(prefill_constraints, perm)
        /\ count_visible_start(perm) = clue}

\* opp_clue == 0
branch_opp_clue_0(domain, clue, prefill_constraints) ==
    {perm \in permutations(domain) :
        /\ check_prefill(prefill_constraints, perm)
        /\ count_visible_start(perm) = clue}

\* clue == 0
branch_clue_0(domain, opp_clue, prefill_constraints) ==
    {perm \in permutations(domain) :
        /\ check_prefill(prefill_constraints, perm)
        /\ count_visible_reverse(perm) = opp_clue}

\* slip: the far clue is not compared
branch_general_far_ignored(domain, clue, opp_clue, prefill_constraints) ==
    {perm \in permutations(domain) :
        /\ check_prefill(prefill_constraints, perm)
        /\ count_visible_start(perm) = clue}

\* both clues active, neither 1 nor n
branch_general(domain, clue, opp_clue, prefill_constraints) ==
    {perm \in permutations(domain) :
        /\ check_prefill(prefill_constraints, perm)
        /\ count_visible_start(perm) = clue
        /\ count_visible_reverse(perm) = opp_clue}

\* the generic filtering paths: the body of generate_permutations after the
\* hand-over to the resolver
generic_paths(m, domain, cells, clue, opp_clue, prefill_constraints) ==
    IF clue = 0 /\ opp_clue = 0 THEN branch_unconstrained(domain, prefill_constraints)
    ELSE IF clue = m THEN branch_clue_n(m, opp_clue, prefill_constraints)
    ELSE IF opp_clue = m THEN branch_opp_clue_n(m, clue, prefill_constraints)
    ELSE IF clue = 1 THEN branch_clue_1(m, cells, opp_clue, prefill_constraints)
    ELSE IF opp_clue = 1 THEN branch_opp_clue_1(m, cells, clue, prefill_constraints)
    ELSE IF opp_clue = 0 THEN branch_opp_clue_0(domain, clue, prefill_constraints)
    ELSE IF clue = 0 THEN branch_clue_0(domain, opp_clue, prefill_constraints)
    ELSE branch_general(domain, clue, opp_clue, prefill_constraints)

generate_permutations(m, domain, cells, clue, opp_clue, prefill_constraints) ==
    IF 1 <= Len(prefill_constraints) /\ Len(prefill_constraints) <= 3
    THEN resolve_prefilled_permutations(m, domain, clue, opp_clue, prefill_constraints)
    ELSE generic_paths(m, domain, cells, clue, opp_clue, prefill_constraints)

(***************************************************************************)
(* @cache on generate_permutations: memo maps the argument tuples of the   *)
(* calls made so far to the set object each returned.  An argument tuple   *)
(* is the record [n, clue, opp_clue, prefill_constraints]; full_domain and *)
(* cell_range are functions of n.  For 1 to 3 constraints the object is    *)
(* the one resolve_prefilled_permutations memoizes as well.                *)
(***************************************************************************)
generate_of(key) ==
    generate_permutations(key.n, full_domain(key.n), cell_range(key.n),
                          key.clue, key.opp_clue, key.prefill_constraints)

\* the object a call returns: the memoized one on a hit, a new one on a miss
cached_generate(mem, key) == IF key \in DOMAIN mem THEN mem[key] ELSE generate_of(key)

\* the cache after the call
cache_after(mem, key) ==
    IF key \in DOMAIN mem THEN mem ELSE (key :> generate_of(key)) @@ mem

(***************************************************************************)
(* Direct calls of the generator and of the resolver: one call per         *)
(* behaviour, its arguments drawn from every line length 1..MaxLineLen,    *)
(* every clue pair in [0, n] and every well-formed prefill tuple.          *)
(***************************************************************************)
InjSeqs(S, k) == {s \in [1..k -> S] : \A a, b \in 1..k : a # b => s[a] # s[b]}

Increasing(s) == \A a, b \in 1..Len(s) : a < b => s[a] < s[b]

\* prefill tuples of length k: distinct positions, distinct values
WellFormedPrefills(m, k) ==
    {[x \in 1..k |-> <<ps[x], vs[x]>>] :
        ps \in {q \in InjSeqs(0..(m - 1), k) : m <= MaxShuffledLen \/ Increasing(q)},
        vs \in InjSeqs(1..m, k)}

LineCalls ==
    UNION {UNION {[n : {m}, clue : 0..m, opp_clue : 0..m,
                   prefill_constraints : WellFormedPrefills(m, k)] : k \in 0..m} :
           m \in 1..MaxLineLen}

NoCall == [n |-> 0, clue |-> 0, opp_clue |-> 0, prefill_constraints |-> <<>>]

InitGen ==
    /\ call \in LineCalls
    /\ pc = "call"
    /\ result = {}
    /\ n = 0
    /\ clues = <<>>
    /\ prefill_cells = {}
    /\ row_permutations = <<>>
    /\ col_permutations = <<>>
    /\ dirty_intersections = {}
    /\ queue = <<>>
    /\ assigned_rows = {}
    /\ assigned_cols = {}
    /\ i = 0
    /\ ret = "none"
    /\ memo = <<>>
    /\ shared = {}

\* the call is handed to the resolver (1 to 3 constraints) and the resolver raises
generate_raises(m, domain, prefill_constraints) ==
    /\ 1 <= Len(prefill_constraints)
    /\ Len(prefill_constraints) <= 3
    /\ resolve_raises(m, domain, prefill_constraints)

\* generate_permutations(n, full_domain, cell_range, clue, opp_clue, prefill):
\* it returns a set, or the resolver's IndexError passes through it
CallGenerate ==
    /\ pc = "call"
    /\ IF generate_raises(call.n, full_domain(call.n), call.prefill_constraints)
       THEN /\ pc' = "IndexError"
            /\ result' = result
            /\ memo' = memo
       ELSE /\ result' = cached_generate(memo, call)
            /\ memo' = cache_after(memo, call)
            /\ pc' = "generated"
    /\ UNCHANGED <<call, game_vars>>

\* resolve_prefilled_permutations(n, full_domain, clue, opp_clue, prefill),
\* called with the 1 to 3 constraints its contract admits
CallResolve ==
    /\ pc = "call"
    /\ 1 <= Len(call.prefill_constraints)
    /\ Len(call.prefill_constraints) <= 3
    /\ IF resolve_raises(call.n, full_domain(call.n), call.prefill_constraints)
       THEN /\ pc' = "IndexError"
            /\ result' = result
       ELSE /\ result' = resolve_prefilled_permutations(call.n, full_domain(call.n),
                                                        call.clue, call.opp_clue,
                                                        call.prefill_constraints)
            /\ pc' = "resolved"
    /\ UNCHANGED <<call, game_vars, memo>>

NextGen == CallGenerate \/ CallResolve

SpecGen == InitGen /\ [][NextGen]_vars

(***************************************************************************)
(* Direct calls outside the contract: a clue outside [0, n], or a prefill  *)
(* tuple that names a position twice or a value twice.  The code validates *)
(* none of its arguments, so such a call runs the same statements.         *)
(***************************************************************************)
\* prefill tuples of length k over the positions and values of the line
PrefillTuples(m, k) == [1..k -> (0..(m - 1)) \X (1..m)]

WellFormedPrefill(prefill) ==
    \A a, b \in 1..Len(prefill) :
        a # b => prefill[a][1] # prefill[b][1] /\ prefill[a][2] # prefill[b][2]

ViolatingCalls ==
    UNION {UNION {{c \in [n : {m}, clue : (-1)..(m + 1), opp_clue : (-1)..(m + 1),
                         prefill_constraints : PrefillTuples(m, k)] :
                      \/ c.clue \notin 0..m
                      \/ c.opp_clue \notin 0..m
                      \/ ~WellFormedPrefill(c.prefill_constraints)} :
                  k \in (0..m) \cap (0..3)} :
           m \in 1..MaxShuffledLen}

InitViolation ==
    /\ call \in ViolatingCalls
    /\ pc = "call"
    /\ result = {}
    /\ n = 0
    /\ clues = <<>>
    /\ prefill_cells = {}
    /\ row_permutations = <<>>
    /\ col_permutations = <<>>
    /\ dirty_intersections = {}
    /\ queue = <<>>
    /\ assigned_rows = {}
    /\ assigned_cols = {}
    /\ i = 0
    /\ ret = "none"
    /\ memo = <<>>
    /\ shared = {}

SpecViolation == InitViolation /\ [][NextGen]_vars

(***************************************************************************)
(* The Game: grid size n, the four edge-clue collections (one clue per     *)
(* edge and line index), the known cells (row, col, val), and the fields   *)
(* the initializer and the propagator write.                               *)
(***************************************************************************)
Edges(m) == {"left", "right", "top", "bottom"} \X (0..(m - 1))

\* get_clues_for_row / get_clues_for_col (grid_manager_perm, not part of src/):
\* the clue pair at the two ends of a line
get_clues_for_row(cl, m, idx) == <<cl[<<"left", idx>>], cl[<<"right", idx>>]>>
get_clues_for_col(cl, m, idx) == <<cl[<<"top", idx>>], cl[<<"bottom", idx>>]>>

\* lexicographic order of (pos, val) pairs, as Python compares tuples
PairLess(a, b) == a[1] < b[1] \/ (a[1] = b[1] /\ a[2] < b[2])

\* tuple(sorted(S)) for a set S of pairs
RECURSIVE sorted(_)
sorted(S) ==
    IF S = {} THEN <<>>
    ELSE LET least == CHOOSE a \in S : \A b \in S \ {a} : PairLess(a, b)
         IN  <<least>> \o sorted(S \ {least})

row_prefill_constraints(cells, idx) ==
    sorted({<<c[2], c[3]>> : c \in {d \in cells : d[1] = idx}})

col_prefill_constraints(cells, idx) ==
    sorted({<<c[1], c[3]>> : c \in {d \in cells : d[2] = idx}})

\* the argument tuple of the generator call for row idx, and for column idx
row_key(m, cl, cells, idx) ==
    LET pair == get_clues_for_row(cl, m, idx)
    IN  [n |-> m, clue |-> pair[1], opp_clue |-> pair[2],
         prefill_constraints |-> row_prefill_constraints(cells, idx)]

col_key(m, cl, cells, idx) ==
    LET pair == get_clues_for_col(cl, m, idx)
    IN  [n |-> m, clue |-> pair[1], opp_clue |-> pair[2],
         prefill_constraints |-> col_prefill_constraints(cells, idx)]

\* the generator call for row idx
valid_row_perms(m, cl, cells, idx) ==
    LET pair == get_clues_for_row(cl, m, idx)
    IN  generate_permutations(m, full_domain(m), cell_range(m), pair[1], pair[2],
                              row_prefill_constraints(cells, idx))

\* the generator call for column idx
valid_col_perms(m, cl, cells, idx) ==
    LET pair == get_clues_for_col(cl, m, idx)
    IN  generate_permutations(m, full_domain(m), cell_range(m), pair[1], pair[2],
                              col_prefill_constraints(cells, idx))

\* known cells: one value per cell, no value twice in a row or in a column
WellFormedCells(cells) ==
    \A c, d \in cells :
        c # d => /\ <<c[1], c[2]>> # <<d[1], d[2]>>
                 /\ (c[1] = d[1] => c[3] # d[3])
                 /\ (c[2] = d[2] => c[3] # d[3])

\* the clue collections with exactly the edges of G clued
CluesOn(m, G) ==
    {[e \in Edges(m) |-> IF e \in G THEN v[e] ELSE 0] : v \in [G -> 1..m]}

\* the subsets of S with at most k members
RECURSIVE SmallSubsets(_, _)
SmallSubsets(S, k) ==
    IF k <= 0 THEN {{}}
    ELSE LET smaller == SmallSubsets(S, k - 1)
         IN  smaller \cup {T \cup {x} : T \in smaller, x \in S}

Min(a, b) == IF a < b THEN a ELSE b

GivenEdges(m) == {e \in Edges(m) : e[2] <= MaxGivenLine}

GivenCells(m) ==
    {c \in (0..(m - 1)) \X (0..(m - 1)) \X (1..m) :
        c[1] <= MaxGivenLine \/ c[2] <= MaxGivenLine}

Init ==
    /\ \E m \in 1..MaxN :
         /\ n = m
         /\ \E G \in SmallSubsets(GivenEdges(m), MaxGivens) :
              /\ clues \in CluesOn(m, G)
              /\ prefill_cells \in
                   {cells \in SmallSubsets(GivenCells(m),
                                           Min(MaxCells, MaxGivens - Cardinality(G))) :
                        WellFormedCells(cells)}
    /\ row_permutations = <<>>
    /\ col_permutations = <<>>
    /\ dirty_intersections = {}
    /\ queue = <<>>
    /\ assigned_rows = {}
    /\ assigned_cols = {}
    /\ pc = "row"
    /\ i = 0
    /\ ret = "none"
    /\ call = NoCall
    /\ result = {}
    /\ memo = <<>>
    /\ shared = {}

(***************************************************************************)
(* initialize_permutations: the loop over the line index i, one action for *)
(* the row half and one for the column half of an iteration.               *)
(***************************************************************************)
line_coords_row(m, idx) == {<<idx, col_idx>> : col_idx \in 0..(m - 1)}
line_coords_col(m, idx) == {<<row_idx, idx>> : row_idx \in 0..(m - 1)}

\* slip: the emptiness test is left out, every generated set is stored
no_valid_perms_never(perms) == FALSE

\* if not valid_row_perms / if not valid_col_perms
no_valid_perms(perms) == perms = {}

\* shared holds the lines whose list slot is still bound to the object the
\* generator returned, which is the memoized one
GenerateRow ==
    /\ pc = "row"
    /\ LET key == row_key(n, clues, prefill_cells, i)
           perms == cached_generate(memo, key)
       IN  /\ memo' = cache_after(memo, key)
           /\ IF no_valid_perms(perms)
              THEN /\ ret' = "False"
                   /\ pc' = "done"
                   /\ UNCHANGED <<row_permutations, dirty_intersections, shared>>
              ELSE /\ row_permutations' = Append(row_permutations, perms)
                   /\ shared' = shared \cup {<<"row", i>>}
                   /\ dirty_intersections' = dirty_intersections \cup line_coords_row(n, i)
                   /\ pc' = "col"
                   /\ ret' = ret
    /\ UNCHANGED <<n, clues, prefill_cells, col_permutations, queue,
                   assigned_rows, assigned_cols, i, call, result>>

GenerateCol ==
    /\ pc = "col"
    /\ LET key == col_key(n, clues, prefill_cells, i)
           perms == cached_generate(memo, key)
       IN  /\ memo' = cache_after(memo, key)
           /\ IF no_valid_perms(perms)
              THEN /\ ret' = "False"
                   /\ pc' = "done"
                   /\ UNCHANGED <<col_permutations, dirty_intersections, i, shared>>
              ELSE /\ col_permutations' = Append(col_permutations, perms)
                   /\ shared' = shared \cup {<<"col", i>>}
                   /\ dirty_intersections' = dirty_intersections \cup line_coords_col(n, i)
                   /\ i' = i + 1
                   /\ pc' = IF i + 1 < n THEN "row" ELSE "propagate"
                   /\ ret' = ret
    /\ UNCHANGED <<n, clues, prefill_cells, row_permutations, queue,
                   assigned_rows, assigned_cols, call, result>>

(***************************************************************************)
(* propagate_intersection_constraints: one action per loop iteration; the  *)
(* coordinate set.pop() hands out is any member of the dirty set.          *)
(***************************************************************************)
\* slip: the position after pos is read
values_at_next_position(perms, pos) == {perm[((pos + 1) % Len(perm)) + 1] : perm \in perms}

\* {perm[pos] for perm in perms}
values_at(perms, pos) == {perm[pos + 1] : perm \in perms}

intersect_values(row_values, col_values) == row_values \cap col_values

\* slip: the filter reads position 0 of every permutation
keep_valid_first_position(perms, pos, valid_values) ==
    {perm \in perms : perm[1] \in valid_values}

\* {perm for perm in perms if perm[pos] in valid_values}
keep_valid(perms, pos, valid_values) == {perm \in perms : perm[pos + 1] \in valid_values}

\* slip: <= for <, so that an unchanged set counts as narrowed
set_shrank_or_same(perms, old_count) == Cardinality(perms) <= old_count

\* len(g.row_permutations[row_idx]) < old_row_count, and the same test for the column
set_shrank(perms, old_count) == Cardinality(perms) < old_count

\* slip: a narrowed row re-marks nothing
remark_row_nothing(dirty, m, row_idx, col_idx) == dirty

\* the row narrowed: every other coordinate of the row is dirty again
remark_row(dirty, m, row_idx, col_idx) ==
    dirty \cup {<<row_idx, col>> : col \in (0..(m - 1)) \ {col_idx}}

\* slip: a narrowed column re-marks nothing
remark_col_nothing(dirty, m, row_idx, col_idx) == dirty

\* slip: only the coordinates below the processed row are re-marked
remark_col_below_only(dirty, m, row_idx, col_idx) ==
    dirty \cup {<<row, col_idx>> : row \in (row_idx + 1)..(m - 1)}

\* the column narrowed: every other coordinate of the column is dirty again
remark_col(dirty, m, row_idx, col_idx) ==
    dirty \cup {<<row, col_idx>> : row \in (0..(m - 1)) \ {row_idx}}

\* one iteration of the while loop on the popped coordinate; outcome is
\* "False" (a return False), or "loop" (back to the loop test)
propagate_step(m, rows, cols, dirty, coord) ==
    LET row_idx == coord[1]
        col_idx == coord[2]
        popped == dirty \ {coord}
        row_perms == rows[row_idx + 1]
        col_perms == cols[col_idx + 1]
        row_values == values_at(row_perms, col_idx)
        col_values == values_at(col_perms, row_idx)
        valid_values == intersect_values(row_values, col_values)
        old_row_count == Cardinality(row_perms)
        old_col_count == Cardinality(col_perms)
        new_row == keep_valid(row_perms, col_idx, valid_values)
        new_col == keep_valid(col_perms, row_idx, valid_values)
        dirty_r == IF set_shrank(new_row, old_row_count)
                   THEN remark_row(popped, m, row_idx, col_idx) ELSE popped
        dirty_c == IF set_shrank(new_col, old_col_count)
                   THEN remark_col(dirty_r, m, row_idx, col_idx) ELSE dirty_r
    IN  IF valid_values = {}
        THEN [rows |-> rows, cols |-> cols, dirty |-> popped, outcome |-> "False",
              filtered |-> FALSE]
        ELSE [rows |-> [rows EXCEPT ![row_idx + 1] = new_row],
              cols |-> [cols EXCEPT ![col_idx + 1] = new_col],
              dirty |-> dirty_c,
              outcome |-> IF new_row = {} \/ new_col = {} THEN "False" ELSE "loop",
              filtered |-> TRUE]

\* slip: the filter narrows the set object in place (as perms -= ... would), so
\* the memoized object and every line bound to it are narrowed with it
rebind_in_place(mem, bound, key, new_set) ==
    IF bound THEN [mem EXCEPT ![key] = new_set] ELSE mem

\* g.row_permutations[row_idx] = {...} and g.col_permutations[col_idx] = {...}:
\* the comprehension builds a new set and the list slot is bound to it; the
\* object the slot held (memoized under key when bound) is not written
rebind(mem, bound, key, new_set) == mem

\* pc = "propagate": the call made by initialize_permutations, whose False
\* makes the initializer return False; pc = "repropagate": a call made directly
\* by a caller, whose return value is kept in pc
PropagateStep ==
    /\ pc \in {"propagate", "repropagate"}
    /\ dirty_intersections # {}
    /\ \E coord \in dirty_intersections :
         LET after == propagate_step(n, row_permutations, col_permutations,
                                     dirty_intersections, coord)
             row_line == <<"row", coord[1]>>
             col_line == <<"col", coord[2]>>
             memo_row == rebind(memo, row_line \in shared,
                                row_key(n, clues, prefill_cells, coord[1]),
                                after.rows[coord[1] + 1])
             memo_col == rebind(memo_row, col_line \in shared,
                                col_key(n, clues, prefill_cells, coord[2]),
                                after.cols[coord[2] + 1])
         IN  /\ row_permutations' = after.rows
             /\ col_permutations' = after.cols
             /\ dirty_intersections' = after.dirty
             /\ memo' = IF after.filtered THEN memo_col ELSE memo
             /\ shared' = IF after.filtered THEN shared \ {row_line, col_line} ELSE shared
             /\ IF after.outcome = "False"
                THEN IF pc = "propagate"
                     THEN ret' = "False" /\ pc' = "done"
                     ELSE ret' = ret /\ pc' = "returned_False"
                ELSE ret' = ret /\ pc' = pc
    /\ UNCHANGED <<n, clues, prefill_cells, queue, assigned_rows, assigned_cols,
                   i, call, result>>

\* slip: the emptied dirty set is returned as the verdict
return_after_loop_inverted == "False"

\* return True, the statement after the while loop
return_after_loop == "True"

\* the dirty set is empty: the loop is left and the propagator returns
PropagateReturn ==
    /\ pc \in {"propagate", "repropagate"}
    /\ dirty_intersections = {}
    /\ IF pc = "propagate"
       THEN IF return_after_loop = "True"
            THEN ret' = ret /\ pc' = "queue"
            ELSE ret' = "False" /\ pc' = "done"
       ELSE /\ ret' = ret
            /\ pc' = IF return_after_loop = "True" THEN "returned_True"
                                                   ELSE "returned_False"
    /\ UNCHANGED <<n, clues, prefill_cells, row_permutations, col_permutations,
                   dirty_intersections, queue, assigned_rows, assigned_cols,
                   i, call, result, memo, shared>>

\* a caller invokes propagate_intersection_constraints(g) again on the Game
\* the initializer returned True for
Repropagate ==
    /\ pc = "done"
    /\ ret = "True"
    /\ pc' = "repropagate"
    /\ UNCHANGED <<n, clues, prefill_cells, row_permutations, col_permutations,
                   dirty_intersections, queue, assigned_rows, assigned_cols,
                   i, ret, call, result, memo, shared>>

(***************************************************************************)
(* initialize_propagation_queue                                            *)
(***************************************************************************)
ASSIGN_ROW_PERMUTATION == "ASSIGN_ROW_PERMUTATION"
ASSIGN_COL_PERMUTATION == "ASSIGN_COL_PERMUTATION"

\* slip: any non-empty row counts as pinned
row_is_pinned_nonempty(rows, idx) == Cardinality(rows[idx + 1]) >= 1

row_is_pinned(rows, idx) == Cardinality(rows[idx + 1]) = 1
col_is_pinned(cols, idx) == Cardinality(cols[idx + 1]) = 1

\* the queue after the iterations idx, idx + 1, .., m - 1 of the scan
RECURSIVE queue_scan(_, _, _, _, _)
queue_scan(m, rows, cols, q, idx) ==
    IF idx >= m THEN q
    ELSE LET q_row == IF row_is_pinned(rows, idx)
                      THEN Append(q, [type |-> ASSIGN_ROW_PERMUTATION, index |-> idx])
                      ELSE q
             q_col == IF col_is_pinned(cols, idx)
                      THEN Append(q_row, [type |-> ASSIGN_COL_PERMUTATION, index |-> idx])
                      ELSE q_row
         IN  queue_scan(m, rows, cols, q_col, idx + 1)

scan_assigned_rows(m, rows, assigned) ==
    assigned \cup {idx \in 0..(m - 1) : row_is_pinned(rows, idx)}

scan_assigned_cols(m, cols, assigned) ==
    assigned \cup {idx \in 0..(m - 1) : col_is_pinned(cols, idx)}

\* initialize_propagation_queue(g), then initialize_permutations returns True
InitializeQueue ==
    /\ pc = "queue"
    /\ queue' = queue_scan(n, row_permutations, col_permutations, queue, 0)
    /\ assigned_rows' = scan_assigned_rows(n, row_permutations, assigned_rows)
    /\ assigned_cols' = scan_assigned_cols(n, col_permutations, assigned_cols)
    /\ ret' = "True"
    /\ pc' = "done"
    /\ UNCHANGED <<n, clues, prefill_cells, row_permutations, col_permutations,
                   dirty_intersections, i, call, result, memo, shared>>

Next ==
    \/ GenerateRow
    \/ GenerateCol
    \/ PropagateStep
    \/ PropagateReturn
    \/ InitializeQueue
    \/ Repropagate

Spec == Init /\ [][Next]_vars

\* Termination is checked on the Games whose givens are all clues.  The call
\* runs to its return: the interpreter keeps executing the one thread.
InitClued == Init /\ prefill_cells = {}

FairSpec == InitClued /\ [][Next]_vars /\ WF_vars(Next)

(***************************************************************************)
(* Re-entry of the propagator by a caller.  The Game is one the initializer *)
(* returned True for; the caller has narrowed one line (committed it to one *)
(* of its permutations, or struck one permutation out) and marked that      *)
(* line's coordinates dirty, and calls propagate_intersection_constraints.  *)
(***************************************************************************)
\* the propagator run that always pops the least dirty coordinate
RECURSIVE run_least_first(_, _, _, _)
run_least_first(m, rows, cols, dirty) ==
    IF dirty = {}
    THEN [rows |-> rows, cols |-> cols, dirty |-> dirty, outcome |-> "True"]
    ELSE LET least == CHOOSE c \in dirty : \A d \in dirty \ {c} : PairLess(c, d)
             after == propagate_step(m, rows, cols, dirty, least)
         IN  IF after.outcome = "False" THEN after
             ELSE run_least_first(m, after.rows, after.cols, after.dirty)

\* what a caller may leave of a line's set S of two or more permutations
CallerNarrowings(S) ==
    IF Cardinality(S) < 2 THEN {}
    ELSE {{p} : p \in S} \cup {S \ {p} : p \in S}

InitReenter ==
    /\ \E m \in 1..MaxN :
         /\ n = m
         /\ \E G \in SmallSubsets(GivenEdges(m), MaxGivens) :
              /\ clues \in CluesOn(m, G)
              /\ prefill_cells \in
                   {cells \in SmallSubsets(GivenCells(m),
                                           Min(MaxCells, MaxGivens - Cardinality(G))) :
                        WellFormedCells(cells)}
    /\ LET rows == [k \in 1..n |-> valid_row_perms(n, clues, prefill_cells, k - 1)]
           cols == [k \in 1..n |-> valid_col_perms(n, clues, prefill_cells, k - 1)]
       IN  /\ \A k \in 1..n : rows[k] # {} /\ cols[k] # {}
           /\ LET fixed == run_least_first(n, rows, cols, (0..(n - 1)) \X (0..(n - 1)))
              IN  /\ fixed.outcome = "True"
                  /\ queue = queue_scan(n, fixed.rows, fixed.cols, <<>>, 0)
                  /\ assigned_rows = scan_assigned_rows(n, fixed.rows, {})
                  /\ assigned_cols = scan_assigned_cols(n, fixed.cols, {})
                  /\ \E idx \in 0..(n - 1) :
                       \/ /\ \E S \in CallerNarrowings(fixed.rows[idx + 1]) :
                                row_permutations = [fixed.rows EXCEPT ![idx + 1] = S]
                          /\ col_permutations = fixed.cols
                          /\ dirty_intersections = line_coords_row(n, idx)
                       \/ /\ \E S \in CallerNarrowings(fixed.cols[idx + 1]) :
                                col_permutations = [fixed.cols EXCEPT ![idx + 1] = S]
                          /\ row_permutations = fixed.rows
                          /\ dirty_intersections = line_coords_col(n, idx)
    /\ pc = "repropagate"
    /\ i = n
    /\ ret = "True"
    /\ call = NoCall
    /\ result = {}
    /\ memo = [key \in {row_key(n, clues, prefill_cells, idx) : idx \in 0..(n - 1)}
                      \cup {col_key(n, clues, prefill_cells, idx) : idx \in 0..(n - 1)}
                |-> generate_of(key)]
    /\ shared = {}

NextReenter ==
    \/ PropagateStep
    \/ PropagateReturn

SpecReenter == InitReenter /\ [][NextReenter]_vars

(***************************************************************************)
(* What the contracts of sections 4.1 and 4.2 ask for, stated without the  *)
(* code's enumeration: the permutations of 1..n that match the prefill and *)
(* both clues, a clue of 0 being no constraint.                            *)
(***************************************************************************)
IsPermutation(p, m) == /\ p \in [1..m -> 1..m]
                       /\ \A a, b \in 1..m : a # b => p[a] # p[b]

MatchesPrefill(p, prefill) ==
    \A k \in 1..Len(prefill) : p[prefill[k][1] + 1] = prefill[k][2]

ContractSet(c) ==
    {p \in PosPerms(c.n) :
        /\ MatchesPrefill(p, c.prefill_constraints)
        /\ IsPermutation(p, c.n)
        /\ (c.clue = 0 \/ count_visible_start(p) = c.clue)
        /\ (c.opp_clue = 0 \/ count_visible_reverse(p) = c.opp_clue)}

Ascending(m) == [k \in 1..m |-> k]
Descending(m) == [k \in 1..m |-> m + 1 - k]

\* C1: generate_permutations returns exactly the permutations of 1..n that match
\* every prefill pair, whose visible count from the start equals the near clue
\* unless it is 0, and whose visible count from the end equals the far clue
\* unless it is 0.
C1_GeneratorContract ==
    pc = "generated" => result = ContractSet(call)

\* C2: with near clue 1, far clue 0 and no prefill, for n >= 2, the generator
\* returns exactly the (n-1)! permutations of 1..n that start with n.
C2_NearOneFarFree ==
    (/\ pc = "generated"
     /\ call.n >= 2
     /\ call.clue = 1
     /\ call.opp_clue = 0
     /\ call.prefill_constraints = <<>>)
    => /\ result = {p \in PosPerms(call.n) :
                        IsPermutation(p, call.n) /\ p[1] = call.n}
       /\ Cardinality(result) = Cardinality(PosPerms(call.n - 1))

\* C3: with far clue n and no prefill the generator returns the singleton of the
\* descending sequence when the near clue is 0 or equals that sequence's visible
\* count from the start, and the empty set otherwise.
C3_FarClueFull ==
    (/\ pc = "generated"
     /\ call.opp_clue = call.n
     /\ call.prefill_constraints = <<>>)
    => result = IF \/ call.clue = 0
                   \/ call.clue = count_visible_start(Descending(call.n))
                THEN {Descending(call.n)} ELSE {}

\* C4: with near clue n and no prefill the generator returns the singleton of the
\* ascending sequence when the far clue is 0 or equals that sequence's visible
\* count from the end, and the empty set otherwise; n = 3 with clues (3, 3) gives
\* the empty set.
C4_NearClueFull ==
    (/\ pc = "generated"
     /\ call.clue = call.n
     /\ call.prefill_constraints = <<>>)
    => /\ result = IF \/ call.opp_clue = 0
                      \/ call.opp_clue = count_visible_reverse(Ascending(call.n))
                   THEN {Ascending(call.n)} ELSE {}
       /\ (call.n = 3 /\ call.opp_clue = 3) => result = {}

C4_Witness_Singleton ==
    /\ pc = "generated"
    /\ call.n = 3
    /\ call.clue = 3
    /\ call.opp_clue = 1
    /\ call.prefill_constraints = <<>>
    /\ result = {<<1, 2, 3>>}

C4_Witness ==
    /\ pc = "generated"
    /\ call.n = 3
    /\ call.clue = 3
    /\ call.opp_clue = 3
    /\ call.prefill_constraints = <<>>
    /\ result = {}

\* C5: for n <= 5 and 1 to 3 prefill pairs, the set the resolver returns equals
\* the set the generator's generic filtering branches produce for the same n,
\* clues and prefill.
C5_ResolverEqualsGenericPaths ==
    (pc = "resolved" /\ call.n <= 5)
    => result = generic_paths(call.n, full_domain(call.n), cell_range(call.n),
                              call.clue, call.opp_clue, call.prefill_constraints)

\* C6: for 1 to 3 well-formed prefill pairs the resolver returns exactly the
\* permutations of 1..n that carry every fixed value at its fixed position and
\* satisfy both clues (0 = satisfied); n = 3, prefill {(0,2)}, clues (0,0) gives
\* {213, 231}.
C6_ResolverContract ==
    pc = "resolved"
    => /\ result = ContractSet(call)
       /\ (/\ call.n = 3
           /\ call.clue = 0
           /\ call.opp_clue = 0
           /\ call.prefill_constraints = <<(<<0, 2>>)>>)
          => result = {<<2, 1, 3>>, <<2, 3, 1>>}

C6_Witness ==
    /\ pc = "resolved"
    /\ call.n = 3
    /\ call.clue = 0
    /\ call.opp_clue = 0
    /\ call.prefill_constraints = <<(<<0, 2>>)>>
    /\ result = {<<2, 1, 3>>, <<2, 3, 1>>}

\* the resolver narrows by the clues as well: a clued call with three fixed cells
C6_Witness_Clued ==
    /\ pc = "resolved"
    /\ call.n = 4
    /\ call.clue = 2
    /\ call.opp_clue = 2
    /\ Len(call.prefill_constraints) = 3
    /\ result # {}

(***************************************************************************)
(* Claims about the initializer and the propagator.                        *)
(***************************************************************************)
Lines == 0..(n - 1)

\* the propagator ran: both loops of the initializer completed
Propagated == Len(row_permutations) = n /\ Len(col_permutations) = n

\* row i and column j agree on the values their cell can take
Consistent(rows, cols, row_idx, col_idx) ==
    {p[col_idx + 1] : p \in rows[row_idx + 1]} = {q[row_idx + 1] : q \in cols[col_idx + 1]}

\* C7: whenever initialize_permutations returns True the dirty set is empty and,
\* for every row i and column j, the values row i's permutations put at position
\* j are the values column j's permutations put at position i.
C7_FixedPointConsistent ==
    ret = "True"
    => /\ dirty_intersections = {}
       /\ \A row_idx, col_idx \in Lines :
            Consistent(row_permutations, col_permutations, row_idx, col_idx)

\* a success in which propagation narrowed a line that has no given of its own
C7_Witness ==
    /\ ret = "True"
    /\ n = 3
    /\ \E idx \in Lines :
         /\ row_permutations[idx + 1] # valid_row_perms(n, clues, prefill_cells, idx)
         /\ Cardinality(valid_row_perms(n, clues, prefill_cells, idx)) = 6

\* what the two loops of the initializer hand to the propagator
GeneratedRows == [k \in 1..n |-> valid_row_perms(n, clues, prefill_cells, k - 1)]
GeneratedCols == [k \in 1..n |-> valid_col_perms(n, clues, prefill_cells, k - 1)]
AllCoords == Lines \X Lines

\* the propagator has returned: True (pc = "queue", or the initializer returned
\* True after it) or False
PropagatorReturned == Propagated /\ pc \in {"queue", "done"}
PropagatorVerdict == IF ret = "False" THEN "False" ELSE "True"

\* C8: the propagator's result does not depend on the pop order: whatever order
\* the run took, its verdict is the verdict of the run that pops the least
\* coordinate first, and on success so are the final row and column sets.
C8_OrderIndependent ==
    PropagatorReturned
    => LET least_first == run_least_first(n, GeneratedRows, GeneratedCols, AllCoords)
       IN  /\ PropagatorVerdict = least_first.outcome
           /\ PropagatorVerdict = "True"
              => \A k \in 1..n : /\ row_permutations[k] = least_first.rows[k]
                                  /\ col_permutations[k] = least_first.cols[k]

\* a failed run that stopped elsewhere than the least-first run: the verdict is
\* shared, the partial state is not
C8_Witness ==
    /\ PropagatorReturned
    /\ n = 3
    /\ ret = "False"
    /\ LET least_first == run_least_first(n, GeneratedRows, GeneratedCols, AllCoords)
       IN  /\ least_first.outcome = "False"
           /\ \/ dirty_intersections # least_first.dirty
              \/ \E k \in 1..n : \/ row_permutations[k] # least_first.rows[k]
                                 \/ col_permutations[k] # least_first.cols[k]

\* a successful run on a 3 x 3 grid in which two givens narrowed the lines
C8_Witness_Success ==
    /\ pc = "queue"
    /\ n = 3
    /\ Cardinality({idx \in Lines : row_permutations[idx + 1] # GeneratedRows[idx + 1]}) >= 2
    /\ Cardinality({idx \in Lines : col_permutations[idx + 1] # GeneratedCols[idx + 1]}) >= 2

\* C9: the propagator terminates under every pop order: once it is entered it
\* eventually returns False or drains the dirty set and returns True.
C9_PropagatorTerminates ==
    (pc = "propagate") ~> (pc \in {"queue", "done"})

\* a coordinate was re-added: a narrowed line all of whose coordinates are dirty
\* (narrowing it took a pop of one of them)
C9_Witness ==
    /\ pc = "propagate"
    /\ n = 3
    /\ \E idx \in Lines :
         /\ col_permutations[idx + 1] # GeneratedCols[idx + 1]
         /\ line_coords_col(n, idx) \subseteq dirty_intersections

\* C10: after initialize_permutations returns True the queue holds exactly one
\* ASSIGN_ROW_PERMUTATION entry for each row whose final set is a singleton,
\* exactly one ASSIGN_COL_PERMUTATION entry for each such column, and nothing
\* else; assigned_rows and assigned_cols are those index sets.
EntriesOf(type, idx) ==
    {k \in 1..Len(queue) : queue[k] = [type |-> type, index |-> idx]}

SingletonRows == {idx \in Lines : Cardinality(row_permutations[idx + 1]) = 1}
SingletonCols == {idx \in Lines : Cardinality(col_permutations[idx + 1]) = 1}

C10_QueueHoldsPinnedLines ==
    ret = "True"
    => /\ \A idx \in Lines :
            /\ Cardinality(EntriesOf("ASSIGN_ROW_PERMUTATION", idx))
                 = IF idx \in SingletonRows THEN 1 ELSE 0
            /\ Cardinality(EntriesOf("ASSIGN_COL_PERMUTATION", idx))
                 = IF idx \in SingletonCols THEN 1 ELSE 0
       /\ Len(queue) = Cardinality(SingletonRows) + Cardinality(SingletonCols)
       /\ assigned_rows = SingletonRows
       /\ assigned_cols = SingletonCols

\* pinned and unpinned lines side by side
C10_Witness ==
    /\ ret = "True"
    /\ n = 3
    /\ Len(queue) >= 1
    /\ SingletonRows # {}
    /\ SingletonCols # Lines

\* the lines in the order the initializer generates them: row 0, column 0,
\* row 1, column 1, ...
GeneratedInOrder(t) ==
    IF t % 2 = 0 THEN valid_row_perms(n, clues, prefill_cells, t \div 2)
                 ELSE valid_col_perms(n, clues, prefill_cells, t \div 2)

EmptyLines == {t \in 0..(2 * n - 1) : GeneratedInOrder(t) = {}}
FirstEmptyLine == CHOOSE t \in EmptyLines : \A u \in EmptyLines : t <= u

\* C11: initialize_permutations returns False exactly when some line's generated
\* set is empty or the propagator returns False; at the first empty line it
\* stops with exactly the earlier lines stored, and whenever it returns False
\* the queue has no entry and assigned_rows and assigned_cols are as before.
C11_FalseExactlyOnFailure ==
    ret # "none"
    => /\ ret = "False"
          <=> \/ EmptyLines # {}
              \/ run_least_first(n, GeneratedRows, GeneratedCols, AllCoords).outcome = "False"
       /\ EmptyLines # {}
          => /\ Len(row_permutations) = (FirstEmptyLine + 1) \div 2
             /\ Len(col_permutations) = FirstEmptyLine \div 2
       /\ ret = "False"
          => /\ queue = <<>>
             /\ assigned_rows = {}
             /\ assigned_cols = {}

\* the generation stopped at a column, after a row had been stored
C11_Witness ==
    /\ ret = "False"
    /\ n = 3
    /\ EmptyLines # {}
    /\ FirstEmptyLine % 2 = 1
    /\ Len(row_permutations) = 1
    /\ Len(col_permutations) = 0

\* the generation went through and the propagator returned False
C11_Witness_Propagator ==
    /\ ret = "False"
    /\ n = 3
    /\ EmptyLines = {}
    /\ Propagated

\* C12: a call that violates the contract (a prefill tuple naming a position
\* twice or a value twice, or a clue outside [0, n]) ends in an error, never in
\* a returned set, and no returned tuple fails to be a permutation of 1..n.
C12_ViolationsFailLoudly ==
    pc # "call"
    => /\ pc = "IndexError"
       /\ \A p \in result : IsPermutation(p, call.n)

\* the outcomes of contract-violating calls the code produces
C12_ReturnsEmptySet ==
    /\ pc = "generated"
    /\ call.n = 3
    /\ call.clue = 4
    /\ call.prefill_constraints = <<>>
    /\ result = {}

C12_ReturnsNonPermutation ==
    /\ pc = "resolved"
    /\ call.n = 3
    /\ call.prefill_constraints = <<<<0, 1>>, <<1, 1>>>>
    /\ result = {<<1, 1, 2>>, <<1, 1, 3>>}

C12_RaisesIndexError ==
    /\ pc = "IndexError"
    /\ call.n = 3
    /\ call.prefill_constraints = <<<<0, 1>>, <<0, 2>>>>

\* C13: invoked with an empty dirty set, the propagator returns True and leaves
\* every row set, every column set and the dirty set as they were.  The loop
\* test is the first statement, so the propagator at its loop test with an
\* empty dirty set is the propagator entered with an empty dirty set: in the
\* initializer's call that return leads on to the queue scan, in a caller's own
\* call it is the return value.
C13_EmptyDirtyIsIdentity ==
    [][(pc \in {"propagate", "repropagate"} /\ dirty_intersections = {})
       => /\ pc' = IF pc = "propagate" THEN "queue" ELSE "returned_True"
          /\ UNCHANGED <<row_permutations, col_permutations, dirty_intersections>>]_vars

\* the second invocation returned True on a Game whose lines had been narrowed
C13_Witness ==
    /\ pc = "returned_True"
    /\ n = 3
    /\ dirty_intersections = {}
    /\ \E k \in 1..n : row_permutations[k] # GeneratedRows[k]

\* a line's own givens: its two clues (0 is no constraint) and its known cells
MeetsClues(p, near, far) ==
    /\ (near = 0 \/ count_visible_start(p) = near)
    /\ (far = 0 \/ count_visible_reverse(p) = far)

RowLineOK(p, idx) ==
    /\ IsPermutation(p, n)
    /\ MeetsClues(p, clues[<<"left", idx>>], clues[<<"right", idx>>])
    /\ \A c \in prefill_cells : c[1] = idx => p[c[2] + 1] = c[3]

ColLineOK(p, idx) ==
    /\ IsPermutation(p, n)
    /\ MeetsClues(p, clues[<<"top", idx>>], clues[<<"bottom", idx>>])
    /\ \A c \in prefill_cells : c[2] = idx => p[c[1] + 1] = c[3]

NarrowsOnly ==
    /\ Len(row_permutations') = Len(row_permutations)
    /\ Len(col_permutations') = Len(col_permutations)
    /\ \A k \in 1..Len(row_permutations) : row_permutations'[k] \subseteq row_permutations[k]
    /\ \A k \in 1..Len(col_permutations) : col_permutations'[k] \subseteq col_permutations[k]

\* every stored line is within what the generator returned for it and meets
\* the line's own givens
StoredWithinGenerated ==
    /\ \A k \in 1..Len(row_permutations) :
          /\ row_permutations[k] \subseteq GeneratedRows[k]
          /\ \A p \in row_permutations[k] : RowLineOK(p, k - 1)
    /\ \A k \in 1..Len(col_permutations) :
          /\ col_permutations[k] \subseteq GeneratedCols[k]
          /\ \A p \in col_permutations[k] : ColLineOK(p, k - 1)

\* C14: every step of the propagator replaces the row's and the column's set
\* by a subset of its previous value and adds no permutation to any set; so
\* once initialize_permutations has returned True every permutation of a line's
\* set is in the set the generator returned for that line and meets that
\* line's two clues (0 is no constraint) and its known cells.  The second part
\* is stated of every stored line at every moment, the state after the True
\* return included.
C14_NarrowingOnly ==
    /\ [][(pc \in {"propagate", "repropagate"}) => (NarrowsOnly)]_vars
    /\ []StoredWithinGenerated

\* a row with a clue of its own was narrowed by the propagator and survived
C14_Witness ==
    /\ ret = "True"
    /\ n = 3
    /\ \E idx \in Lines :
         /\ clues[<<"left", idx>>] # 0
         /\ row_permutations[idx + 1] # GeneratedRows[idx + 1]
         /\ Cardinality(row_permutations[idx + 1]) >= 2

NoStoredSetEmpty ==
    /\ \A k \in 1..Len(row_permutations) : row_permutations[k] # {}
    /\ \A k \in 1..Len(col_permutations) : col_permutations[k] # {}

\* the step is a return False of the propagator
PropagatorFails ==
    /\ pc \in {"propagate", "repropagate"}
    /\ pc' \in {"done", "returned_False"}

\* the coordinate the step popped had no value common to its row and column
PoppedIntersectionEmpty ==
    \E coord \in dirty_intersections \ dirty_intersections' :
        values_at(row_permutations[coord[1] + 1], coord[2])
          \cap values_at(col_permutations[coord[2] + 1], coord[1]) = {}

\* C15: no set stored in row_permutations or col_permutations is empty in any
\* reachable state: an empty generator result is not stored, and filtering by
\* a non-empty intersection leaves both sets non-empty, so the emptiness test
\* after the filter never fails and the propagator returns False only at an
\* empty intersection, with the sets as they were.
C15_NoEmptySetStored ==
    /\ []NoStoredSetEmpty
    /\ [][PropagatorFails
          => /\ PoppedIntersectionEmpty
             /\ UNCHANGED <<row_permutations, col_permutations>>]_vars

\* the propagator returned False after it had narrowed a row
C15_Witness ==
    /\ ret = "False"
    /\ Propagated
    /\ n = 3
    /\ \E k \in 1..n : row_permutations[k] # GeneratedRows[k]

CleanCoordsConsistent ==
    \A coord \in AllCoords \ dirty_intersections :
        Consistent(row_permutations, col_permutations, coord[1], coord[2])

\* a narrowed row has every coordinate but the popped one dirty again, and so
\* has a narrowed column
NarrowedLinesRemarked ==
    \A coord \in dirty_intersections \ dirty_intersections' :
        /\ row_permutations'[coord[1] + 1] # row_permutations[coord[1] + 1]
           => line_coords_row(n, coord[1]) \ {coord} \subseteq dirty_intersections'
        /\ col_permutations'[coord[2] + 1] # col_permutations[coord[2] + 1]
           => line_coords_col(n, coord[2]) \ {coord} \subseteq dirty_intersections'

\* C16: when the propagator is entered with a partial dirty set and every
\* intersection outside it has equal row and column value sets, then after
\* every completed loop iteration every intersection outside the dirty set
\* still has equal value sets: an iteration that narrows row i marks every
\* (i, c) with c other than the processed column, and one that narrows column
\* j marks every (r, j) with r other than the processed row.
C16_CleanIntersectionsStayConsistent ==
    /\ [](pc \in {"propagate", "repropagate", "queue", "returned_True"}
             => CleanCoordsConsistent)
    /\ [][(pc \in {"propagate", "repropagate"}) => (NarrowedLinesRemarked)]_vars

\* mid-run after a re-entry: the narrowing has spread from the caller's line to
\* a crossing line, whose coordinates were marked, while others are clean
C16_Witness ==
    /\ pc = "repropagate"
    /\ n = 3
    /\ AllCoords \ dirty_intersections # {}
    /\ \E a, b \in dirty_intersections : a[1] # b[1] /\ a[2] # b[2]
    /\ Cardinality({k \in 1..n : row_permutations[k] # GeneratedRows[k]}) >= 2
    /\ Cardinality({k \in 1..n : col_permutations[k] # GeneratedCols[k]}) >= 2

\* column c of the grid whose rows are grid[1], .., grid[n]
ColumnOf(grid, c) == [r \in 1..n |-> grid[r][c]]

SameLine(p, q) == \A k \in 1..n : p[k] = q[k]

\* the full boards over the line sets: row r is in rows[r], column c in cols[c]
Solutions(rows, cols) ==
    {grid \in [1..n -> PosPerms(n)] :
        /\ \A r \in 1..n : \E p \in rows[r] : SameLine(p, grid[r])
        /\ \A c \in 1..n : \E q \in cols[c] : SameLine(q, ColumnOf(grid, c))}

\* C17: if some grid has every row in the row's set and every column in the
\* column's set at the entry of the propagator, the propagator returns True
\* under every pop order, and every such grid still has every row and column
\* in the final sets.
C17_SolutionsSurvive ==
    PropagatorReturned
    => LET at_entry == Solutions(GeneratedRows, GeneratedCols)
       IN  at_entry # {}
           => /\ PropagatorVerdict = "True"
              /\ at_entry \subseteq Solutions(row_permutations, col_permutations)

\* a board with several solutions whose lines the propagator narrowed
C17_Witness ==
    /\ PropagatorReturned
    /\ n = 3
    /\ Cardinality(Solutions(GeneratedRows, GeneratedCols)) >= 2
    /\ \E k \in 1..n : row_permutations[k] # GeneratedRows[k]
    /\ \E k \in 1..n : col_permutations[k] # GeneratedCols[k]

\* the set a line holds: the memoized object's content while its list slot is
\* still bound to that object, the slot's own set once it was rebound
RowSet(idx) ==
    IF <<"row", idx>> \in shared THEN memo[row_key(n, clues, prefill_cells, idx)]
    ELSE row_permutations[idx + 1]

ColSet(idx) ==
    IF <<"col", idx>> \in shared THEN memo[col_key(n, clues, prefill_cells, idx)]
    ELSE col_permutations[idx + 1]

RowSetNext(idx) ==
    IF <<"row", idx>> \in shared' THEN memo'[row_key(n, clues, prefill_cells, idx)]
    ELSE row_permutations'[idx + 1]

ColSetNext(idx) ==
    IF <<"col", idx>> \in shared' THEN memo'[col_key(n, clues, prefill_cells, idx)]
    ELSE col_permutations'[idx + 1]

\* the step that popped (i, j) left every row but i and every column but j
\* with the set it had, and the other fields of the Game as they were
OnlyPoppedLinesChange ==
    \A coord \in dirty_intersections \ dirty_intersections' :
        /\ \A idx \in Lines \ {coord[1]} : RowSetNext(idx) = RowSet(idx)
        /\ \A idx \in Lines \ {coord[2]} : ColSetNext(idx) = ColSet(idx)
        /\ UNCHANGED <<n, clues, prefill_cells, queue, assigned_rows, assigned_cols>>

\* a repeated call of the generator returns what the first call returned
MemoIntact == \A key \in DOMAIN memo : memo[key] = generate_of(key)

\* C18: a propagator step on (i, j) changes only row i's set, column j's set
\* and the dirty set; every other row and column set is unchanged, also when
\* several lines were bound to one memoized set object; the memoized generator
\* result is never narrowed, so a later call of generate_permutations with the
\* same arguments returns the set the first call returned.
C18_FrameAndMemoIntact ==
    /\ [][(pc \in {"propagate", "repropagate"}) => (OnlyPoppedLinesChange)]_vars
    /\ []MemoIntact

\* mid-run: a row was rebound to a narrowed set while another row is still
\* bound to the memoized object both were generated as
C18_Witness ==
    /\ pc = "propagate"
    /\ n = 3
    /\ \E a, b \in Lines :
         /\ a # b
         /\ row_key(n, clues, prefill_cells, a) = row_key(n, clues, prefill_cells, b)
         /\ <<"row", a>> \notin shared
         /\ <<"row", b>> \in shared
         /\ row_permutations[a + 1] # row_permutations[b + 1]
         /\ row_permutations[b + 1] = memo[row_key(n, clues, prefill_cells, b)]

====
